---- MODULE Spec2Model ----
(***************************************************************************)
(* Model of r4g_base::splitter: the window-range generator                 *)
(* sliding_windows (utils.rs) and its two adapters,                        *)
(* slice_by_windows_borrowed (from_list.rs) and utf8_by_chars_borrowed     *)
(* (from_char.rs).                                                         *)
(*                                                                         *)
(* usize is modelled as an unsigned integer of W bits.  `+` on usize       *)
(* panics on overflow when the crate is built with overflow checks (the    *)
(* debug profile) and wraps modulo 2^W otherwise (the release profile);    *)
(* the profile is chosen in Init and both are explored.  Only the          *)
(* generator does arithmetic on usize; the byte offsets of the text        *)
(* adapter are looked up, never computed, and are kept as plain integers.  *)
(***************************************************************************)
EXTENDS Integers, Sequences, FiniteSets, TLC

\* Width of usize in bits.
W == 3

\* Longest slice / text (in elements / scalar values) given to an adapter.
MaxLen == 3

\* How many further times the closure is called after it returned None.
MaxNones == 2

\* usize::MAX
MAX == 2^W - 1

\* isize::MAX: no slice of sized elements and no str is longer than this
ISIZE_MAX == 2^(W - 1) - 1

\* Number of yielded ranges / pushed windows the history variables record.
\* A run that ends yields at most MAX + 2 ranges, so only a run that never
\* ends fills the history.
MaxHist == MAX + 3

\* The scalar values texts are made of: 'a' (1 byte), U+00E9 (2 bytes),
\* U+20AC (3 bytes), U+1F600 (4 bytes).  Slices use them as opaque elements.
Scalars == {97, 233, 8364, 128512}

Inputs ==
    UNION {[1..k -> Scalars] :
              k \in 0..(IF MaxLen < ISIZE_MAX THEN MaxLen ELSE ISIZE_MAX)}

----------------------------------------------------------------------------
(* usize arithmetic *)

WrappingAdd(a, b) == (a + b) % (MAX + 1)

SaturatingAdd(a, b) == IF a + b > MAX THEN MAX ELSE a + b

Overflows(a, b) == a + b > MAX

----------------------------------------------------------------------------
(* &str storage: the UTF-8 encoding of a sequence of scalar values *)

EncodeUtf8(c) ==
    IF c < 128 THEN <<c>>
    ELSE IF c < 2048 THEN <<192 + (c \div 64), 128 + (c % 64)>>
    ELSE IF c < 65536 THEN
        <<224 + (c \div 4096), 128 + ((c \div 64) % 64), 128 + (c % 64)>>
    ELSE <<240 + (c \div 262144), 128 + ((c \div 4096) % 64),
           128 + ((c \div 64) % 64), 128 + (c % 64)>>

RECURSIVE StrBytes(_)
StrBytes(s) == IF s = <<>> THEN <<>> ELSE EncodeUtf8(Head(s)) \o StrBytes(Tail(s))

\* b (0-based) is a char boundary of the byte string: str::is_char_boundary
IsCharBoundary(bytes, b) ==
    \/ b = 0
    \/ b = Len(bytes)
    \/ b < Len(bytes) /\ bytes[b + 1] \div 64 # 2

\* input.char_indices().map(|(i, _)| i).collect()
CharIndices(bytes) ==
    SelectSeq([k \in 1..Len(bytes) |-> k - 1],
              LAMBDA o : bytes[o + 1] \div 64 # 2)

----------------------------------------------------------------------------
(* sliding_windows: the pieces of the closure *)

Hop_OffByOne(step_, n_) == IF step_ = 0 THEN n_ + 1 ELSE step_

Hop(step_, n_) == IF step_ = 0 THEN n_ ELSE step_

Fit_IgnoresN(i_, n_, len_) == i_ <= len_

\* `i + n <= len` as the release profile evaluates it
Fit(i_, n_, len_) == WrappingAdd(i_, n_) <= len_

TailCond_NoFlag(keep_tail_, emitted_, i_, len_) == keep_tail_ /\ i_ < len_

TailCond_Inclusive(keep_tail_, emitted_, i_, len_) ==
    keep_tail_ /\ ~emitted_ /\ i_ <= len_

\* `keep_tail && !emitted && i < len`
TailCond(keep_tail_, emitted_, i_, len_) == keep_tail_ /\ ~emitted_ /\ i_ < len_

MkRange(a, b) == [start |-> a, end |-> b]

----------------------------------------------------------------------------
(* the adapters' loop bodies *)

\* &input[r] on a slice: Some(view) or a panic
SliceIndexOk(r_, len_) == r_.start <= r_.end /\ r_.end <= len_

SliceView(r_) == MkRange(r_.start, r_.end)

ByteStart_CharOrdinal(table, r_) == r_.start

\* char_indices[r.start]
ByteStart(table, r_) == table[r_.start + 1]

\* if r.end < num_chars { char_indices[r.end] } else { input.len() }
ByteEnd(table, bytes, r_) ==
    IF r_.end < Len(table) THEN table[r_.end + 1] ELSE Len(bytes)

\* the contents a borrowed view [start, end) of a backing store denotes
Content(store, v) == SubSeq(store, v.start + 1, v.end)

----------------------------------------------------------------------------
VARIABLES
    mode,        \* which entry point runs: "ranges", "slice" or "text"
    build,       \* "debug" (overflow checks) or "release" (wrapping)
    input,       \* the slice's elements / the text's scalar values
    len, n, step, keep_tail,   \* arguments of sliding_windows
    hop, i, emitted,           \* the closure's captured state
    r,           \* the range the closure yielded last
    pc,          \* "next", "body", "done" or "panic"
    ranges,      \* history: the ranges yielded so far
    out,         \* the consumer's Vec: views pushed so far
    overflowed,  \* history: some `i + n` exceeded usize::MAX
    nones        \* history: how often the closure returned None

vars == <<mode, build, input, len, n, step, keep_tail, hop, i, emitted, r, pc,
          ranges, out, overflowed, nones>>

params == <<mode, build, input, len, n, step, keep_tail, hop>>

Record(h, x) == IF Len(h) < MaxHist THEN Append(h, x) ELSE h

Init ==
    /\ mode \in {"ranges", "slice", "text"}
    /\ build \in {"debug", "release"}
    /\ input \in IF mode = "ranges" THEN {<<>>} ELSE Inputs
    /\ len \in IF mode = "ranges" THEN 0..MAX
               ELSE IF mode = "slice" THEN {Len(input)}
               ELSE {Len(CharIndices(StrBytes(input)))}
    /\ n \in 0..MAX
    /\ step \in 0..MAX
    /\ keep_tail \in BOOLEAN
    /\ hop = Hop(step, n)
    /\ i = 0
    /\ emitted = FALSE
    /\ r = MkRange(0, 0)
    /\ pc = "next"
    /\ ranges = <<>>
    /\ out = <<>>
    /\ overflowed = FALSE
    /\ nones = 0

\* The closure can be called: by the loop, or again after it returned None
\* (only a caller holding the iterator itself can do that).
Callable ==
    \/ pc = "next"
    \/ pc = "done" /\ mode = "ranges" /\ nones < MaxNones

\* utils.rs:23 with overflow checks: `i + n` panics
NextOverflowPanic ==
    /\ Callable
    /\ build = "debug"
    /\ Overflows(i, n)
    /\ pc' = "panic"
    /\ overflowed' = TRUE
    /\ UNCHANGED <<params, i, emitted, r, ranges, out, nones>>

\* utils.rs:23-27
NextFull ==
    /\ Callable
    /\ build = "release" \/ ~Overflows(i, n)
    /\ Fit(i, n, len)
    /\ r' = MkRange(i, WrappingAdd(i, n))
    /\ i' = SaturatingAdd(i, hop)
    /\ ranges' = Record(ranges, r')
    /\ overflowed' = (overflowed \/ Overflows(i, n))
    /\ pc' = "body"
    /\ UNCHANGED <<params, emitted, out, nones>>

\* utils.rs:28-31
NextTail ==
    /\ Callable
    /\ build = "release" \/ ~Overflows(i, n)
    /\ ~Fit(i, n, len)
    /\ TailCond(keep_tail, emitted, i, len)
    /\ emitted' = TRUE
    /\ r' = MkRange(i, len)
    /\ ranges' = Record(ranges, r')
    /\ overflowed' = (overflowed \/ Overflows(i, n))
    /\ pc' = "body"
    /\ UNCHANGED <<params, i, out, nones>>

\* utils.rs:32
NextNone ==
    /\ Callable
    /\ build = "release" \/ ~Overflows(i, n)
    /\ ~Fit(i, n, len)
    /\ ~TailCond(keep_tail, emitted, i, len)
    /\ overflowed' = (overflowed \/ Overflows(i, n))
    /\ nones' = nones + 1
    /\ pc' = "done"
    /\ UNCHANGED <<params, i, emitted, r, ranges, out>>

\* the caller of sliding_windows collecting the ranges (utils.rs tests)
CollectPush ==
    /\ pc = "body"
    /\ mode = "ranges"
    /\ out' = Record(out, r)
    /\ pc' = "next"
    /\ UNCHANGED <<params, i, emitted, r, ranges, overflowed, nones>>

\* from_list.rs:21
SlicePush ==
    /\ pc = "body"
    /\ mode = "slice"
    /\ SliceIndexOk(r, Len(input))
    /\ out' = Record(out, SliceView(r))
    /\ pc' = "next"
    /\ UNCHANGED <<params, i, emitted, r, ranges, overflowed, nones>>

SlicePanic ==
    /\ pc = "body"
    /\ mode = "slice"
    /\ ~SliceIndexOk(r, Len(input))
    /\ pc' = "panic"
    /\ UNCHANGED <<params, i, emitted, r, ranges, out, overflowed, nones>>

\* from_char.rs:22-28 succeeds: both Vec indexings are in range and the str
\* slice is a valid one
TextIndexOk(table, bytes, r_) ==
    /\ r_.start < Len(table)
    /\ ByteStart(table, r_) <= ByteEnd(table, bytes, r_)
    /\ ByteEnd(table, bytes, r_) <= Len(bytes)
    /\ IsCharBoundary(bytes, ByteStart(table, r_))
    /\ IsCharBoundary(bytes, ByteEnd(table, bytes, r_))

TextPush ==
    /\ pc = "body"
    /\ mode = "text"
    /\ LET bytes == StrBytes(input)
           table == CharIndices(bytes)
       IN /\ TextIndexOk(table, bytes, r)
          /\ out' = Record(out, MkRange(ByteStart(table, r), ByteEnd(table, bytes, r)))
    /\ pc' = "next"
    /\ UNCHANGED <<params, i, emitted, r, ranges, overflowed, nones>>

TextPanic ==
    /\ pc = "body"
    /\ mode = "text"
    /\ ~TextIndexOk(CharIndices(StrBytes(input)), StrBytes(input), r)
    /\ pc' = "panic"
    /\ UNCHANGED <<params, i, emitted, r, ranges, out, overflowed, nones>>

Next ==
    \/ NextOverflowPanic
    \/ NextFull
    \/ NextTail
    \/ NextNone
    \/ CollectPush
    \/ SlicePush
    \/ SlicePanic
    \/ TextPush
    \/ TextPanic

Spec == Init /\ [][Next]_vars

\* The consumer is a single-threaded loop: it keeps calling the closure and
\* running its body for as long as there is something to do.
FairSpec == Init /\ [][Next]_vars /\ WF_vars(Next)

----------------------------------------------------------------------------
(* Properties *)

\* the range the k-th pull yielded is not of full size: a tail
IsTailRange(x) == WrappingAdd(x.start, n) # x.end

TailIdx == {k \in 1..Len(ranges) : IsTailRange(ranges[k])}

\* number of full-size ranges yielded so far
FullCount == IF emitted THEN Len(ranges) - 1 ELSE Len(ranges)

RECURSIVE ConcatViews(_, _)
ConcatViews(store, views) ==
    IF views = <<>> THEN <<>>
    ELSE Content(store, Head(views)) \o ConcatViews(store, Tail(views))

\* byte offset of the scalar value with ordinal c (c = Len(s): the byte length)
Offset(s, c) == Len(StrBytes(SubSeq(s, 1, c)))

\* C1: the generator yields only finitely many ranges for all parameters:
\* every run of a consumer that keeps pulling reaches the point where the
\* closure reports exhaustion (or the run has ended in a panic).
C1_Finite == <>(pc \in {"done", "panic"})

\* C2: every range yielded by sliding_windows is half-open and in bounds,
\* 0 <= start <= end <= len.
C2_InBounds ==
    \A k \in 1..Len(ranges) :
        /\ 0 <= ranges[k].start
        /\ ranges[k].start <= ranges[k].end
        /\ ranges[k].end <= len

\* C3: utf8_by_chars_borrowed with step > 0 never fails: the lookup
\* char_indices[r.start] of every yielded range lies inside the table, and the
\* run never panics.
C3_TextNoFail ==
    (mode = "text" /\ step > 0) =>
        /\ pc # "panic"
        /\ pc = "body" => r.start < Len(CharIndices(StrBytes(input)))

\* C4: with hop > 0 the full-size ranges are exactly [k*hop, k*hop + n) for
\* k = 0, 1, ... over all k with k*hop + n <= len, in order, each of width n,
\* followed by at most one tail range.
C4_Progression ==
    hop > 0 =>
        /\ \A k \in 1..FullCount :
               /\ ranges[k] = MkRange((k - 1) * hop, (k - 1) * hop + n)
               /\ (k - 1) * hop + n <= len
        /\ pc = "done" =>
               \A k \in 0..MAX : (k * hop + n <= len) => k + 1 <= FullCount

\* C5: at most one tail range is yielded; only when keep_tail holds, no full
\* window fits (i + n > len) and i < len; it is exactly [i, len); no range is
\* yielded on any later pull; without keep_tail no tail range is yielded.
C5_OneTail ==
    /\ [](/\ Cardinality(TailIdx) <= 1
          /\ \A k \in TailIdx :
                 /\ k = Len(ranges)
                 /\ keep_tail /\ emitted
                 /\ ranges[k].end = len
                 /\ ranges[k].start < len
          /\ emitted => TailIdx # {}
          /\ ~keep_tail => ~emitted)
    /\ [][/\ (Len(ranges') > Len(ranges) /\ Len(ranges') \in TailIdx') =>
                 /\ keep_tail
                 /\ i + n > len
                 /\ i < len
                 /\ r' = MkRange(i, len)
                 /\ ranges'[Len(ranges')] = r'
          /\ emitted => (ranges' = ranges /\ pc' # "body")]_vars

\* a tail was yielded, and the closure was then called again, more than once
C5_Witness == emitted /\ pc = "done" /\ nones = MaxNones /\ Len(ranges) >= 2

\* C6 as stated: with len = 0 no range is yielded, for every n including 0.
C6_Orig == (len = 0) => ranges = <<>>

\* C6 amended: with len = 0 and n > 0 no range is yielded, for every step and
\* keep_tail, and the run ends without a panic; with len = 0 and n = 0 every
\* yielded range is [0, 0).
C6_EmptyInput ==
    (len = 0) =>
        /\ n > 0 => (ranges = <<>> /\ pc \in {"next", "done"})
        /\ n = 0 => \A k \in 1..Len(ranges) : ranges[k] = MkRange(0, 0)

C6_Witness == len = 0 /\ n > 0 /\ keep_tail /\ pc = "done"

\* C7 as stated: with n > len the generator yields nothing when keep_tail is
\* false and exactly the one range [0, len) when keep_tail is true.
C7_Orig ==
    (n > len /\ pc = "done") =>
        IF keep_tail THEN ranges = <<MkRange(0, len)>> ELSE ranges = <<>>

\* C7 amended: with n > len the generator yields nothing when keep_tail is
\* false or len = 0, and exactly the one range [0, len) when keep_tail is true
\* and len > 0.
C7_Oversized ==
    (n > len) =>
        /\ ~overflowed
        /\ Len(ranges) <= 1
        /\ ranges # <<>> => (keep_tail /\ len > 0 /\ ranges = <<MkRange(0, len)>>)
        /\ pc = "done" => (ranges = <<>> <=> ~(keep_tail /\ len > 0))

C7_Witness ==
    n > len /\ keep_tail /\ len > 0 /\ pc = "done" /\ ranges = <<MkRange(0, len)>>

\* C8: for n > 0, step = 0 or step = n and no tail, the windows an adapter
\* returns are k = len \div n in number and their concatenation is exactly
\* the first k*n elements / characters of the input.
C8_RoundTrip ==
    (mode \in {"slice", "text"} /\ n > 0 /\ step \in {0, n} /\ ~keep_tail) =>
        /\ pc # "panic"
        /\ pc = "done" =>
               /\ Len(out) = len \div n
               /\ IF mode = "slice"
                  THEN ConcatViews(input, out) = SubSeq(input, 1, Len(out) * n)
                  ELSE ConcatViews(StrBytes(input), out)
                           = StrBytes(SubSeq(input, 1, Len(out) * n))

C8_Witness ==
    /\ mode = "text" /\ n = 1 /\ step = 0 /\ ~keep_tail /\ pc = "done"
    /\ Len(out) = 3
    /\ input[1] = 128512 /\ input[2] = 97

\* C9: for char_count > 0 every sub-view pushed by utf8_by_chars_borrowed has
\* byte_start = table[c0] and byte_end = table[c1] (the byte length when
\* c1 = table.length), both on scalar-value boundaries, and holds exactly the
\* characters with ordinals c0 .. c1-1.
C9_CharBoundaries ==
    (mode = "text" /\ n > 0) =>
        \A k \in 1..Len(out) :
            LET c0 == ranges[k].start
                c1 == ranges[k].end
                bytes == StrBytes(input)
            IN /\ c0 <= c1 /\ c1 <= Len(input)
               /\ out[k].start = Offset(input, c0)
               /\ out[k].end = Offset(input, c1)
               /\ IsCharBoundary(bytes, out[k].start)
               /\ IsCharBoundary(bytes, out[k].end)
               /\ Content(bytes, out[k]) = StrBytes(SubSeq(input, c0 + 1, c1))

\* a window that starts behind a multi-byte character was pushed
C9_Witness ==
    /\ mode = "text" /\ n > 0
    /\ \E k \in 1..Len(out) : out[k].start > ranges[k].start

\* C10: no usize arithmetic in sliding_windows exceeds usize::MAX, so no
\* range with start > end or end > len is yielded.
C10_NoOverflow ==
    /\ ~overflowed
    /\ pc = "body" => (r.start <= r.end /\ r.end <= len)

====
